---- MODULE Spec2Model ----
(***************************************************************************)
(* Skills_Registry tooling: the plugin validator                           *)
(* (scripts/validate_plugins.py), the marketplace aggregator               *)
(* (scripts/generate_marketplace.py) and the test-data subsetter           *)
(* (plugins/general/hpc-dev-testing-workflow/scripts/setup_test_data.py).  *)
(*                                                                         *)
(* Python strings are sequences of one-character strings, so that          *)
(* str.lstrip, str.replace, glob matching and the f-string formatting are  *)
(* computed as the interpreter computes them.                              *)
(***************************************************************************)
EXTENDS Integers, Sequences, FiniteSets, TLC

VARIABLES
    plugin,     \* SpecPlugin: the plugin directory handed to validate_plugin
    vresult,    \* SpecPlugin: what validate_plugin did with it
    registry,   \* SpecRegistry: the plugins/ tree, entries in iterdir order
    vrun,       \* SpecRegistry: the outcome of the validator's main
    arun,       \* SpecRegistry: the outcome of the aggregator's main
    source,     \* SpecSubsetter: SOURCE_PROJECT (cycle directories, meta/)
    dest,       \* SpecSubsetter: DEST_PROJECT (cycle directories, meta/, README.md)
    last,       \* SpecSubsetter: the console report of the latest run
    hist        \* SpecSubsetter: bookkeeping of runs and source edits

vars == <<plugin, vresult, registry, vrun, arun, source, dest, last, hist>>

pluginVars == <<plugin, vresult>>
registryVars == <<registry, vrun, arun>>
subsetterVars == <<source, dest, last, hist>>

(***************************************************************************)
(* Strings                                                                 *)
(***************************************************************************)
StartsWith(s, p) == Len(s) >= Len(p) /\ SubSeq(s, 1, Len(p)) = p

EndsWith(s, p) == Len(s) >= Len(p) /\ SubSeq(s, Len(s) - Len(p) + 1, Len(s)) = p

\* Python: sub in s, for two strings
RECURSIVE IsSubstr(_, _)
IsSubstr(sub, s) ==
    IF Len(s) < Len(sub) THEN FALSE
    ELSE StartsWith(s, sub) \/ IsSubstr(sub, Tail(s))

\* Python: s.lstrip(chars)
RECURSIVE lstrip(_, _)
lstrip(s, chars) ==
    IF s # <<>> /\ Head(s) \in chars THEN lstrip(Tail(s), chars) ELSE s

\* the parts of a path string between "/" separators
RECURSIVE SplitSlash(_, _)
SplitSlash(s, cur) ==
    IF s = <<>> THEN <<cur>>
    ELSE IF Head(s) = "/" THEN <<cur>> \o SplitSlash(Tail(s), <<>>)
    ELSE SplitSlash(Tail(s), Append(cur, Head(s)))

RECURSIVE DropDots(_)
DropDots(parts) ==
    IF parts = <<>> THEN <<>>
    ELSE IF Head(parts) = <<>> \/ Head(parts) = <<".">> THEN DropDots(Tail(parts))
    ELSE <<Head(parts)>> \o DropDots(Tail(parts))

\* pathlib: plugin_dir / rel, as the parts below plugin_dir ("" and "." parts
\* are dropped by the path parser, ".." parts are kept)
PathUnder(rel) == DropDots(SplitSlash(rel, <<>>))

(***************************************************************************)
(* JSON values and plugin directories                                      *)
(***************************************************************************)
s_name == <<"n", "a", "m", "e">>
s_description == <<"d", "e", "s", "c", "r", "i", "p", "t", "i", "o", "n">>
s_skills == <<"s", "k", "i", "l", "l", "s">>
s_dotskills == <<".", "s", "k", "i", "l", "l", "s">>
s_shared == <<"s", "h", "a", "r", "e", "d">>
s_x == <<"x">>
s_up == <<".", ".">>

FieldChars == [name |-> s_name, description |-> s_description, skills |-> s_skills]

Absent == [t |-> "absent", s |-> <<>>]
JNull == [t |-> "null", s |-> <<>>]
JNum == [t |-> "number", s |-> <<>>]
JObj == [t |-> "object", s |-> <<>>]
JStr(s) == [t |-> "string", s |-> s]

NoFields == [name |-> Absent, description |-> Absent, skills |-> Absent,
             version |-> Absent, author |-> Absent]

\* what json.load returns (t = "invalid": the text is not JSON)
Invalid == [t |-> "invalid", s |-> <<>>, items |-> {}, f |-> NoFields]
TopNumber == [t |-> "number", s |-> <<>>, items |-> {}, f |-> NoFields]
TopArray(items) == [t |-> "array", s |-> <<>>, items |-> items, f |-> NoFields]
TopString(s) == [t |-> "string", s |-> s, items |-> {}, f |-> NoFields]
TopObject(f) == [t |-> "object", s |-> <<>>, items |-> {}, f |-> f]

(***************************************************************************)
(* A plugin directory: p.holder is what <plugin>/.claude-plugin is,        *)
(* p.descriptor what .claude-plugin/plugin.json is, p.content what         *)
(* json.load makes of its text, p.dirs the directories that exist below    *)
(* the plugin directory (as path parts; a leading ".." is the category     *)
(* directory) and p.markers those of them that hold an entry named         *)
(* SKILL.md.                                                               *)
(***************************************************************************)
is_dir(p, parts) == parts = <<>> \/ parts \in p.dirs

\* Path.rglob("SKILL.md"): the directories at or below parts holding a match
rglob(p, parts) ==
    {m \in p.markers : Len(m) >= Len(parts) /\ SubSeq(m, 1, Len(parts)) = parts}

Err(kind, arg) == [kind |-> kind, arg |-> arg]

Returned(errors) == [raised |-> "no", errors |-> errors]

\* an exception left validate_plugin: the error list is lost with the frame
Raised(exc) == [raised |-> exc, errors |-> <<>>]

\* Python: whether field in plugin_data is defined (a number, true, false or
\* null is no container: TypeError)
SupportsIn(data) == data.t \in {"object", "array", "string"}

\* Python: field in plugin_data, for a dict, a list or a str
In(field, data) ==
    CASE data.t = "object" -> data.f[field].t # "absent"
      [] data.t = "array" -> FieldChars[field] \in data.items
      [] data.t = "string" -> IsSubstr(FieldChars[field], data.s)

\* Python: plugin_data.get(key, default), for a dict
Get(data, key, default) ==
    IF data.f[key].t = "absent" THEN default ELSE data.f[key]

required_fields == <<"name", "description", "skills">>

RECURSIVE FieldErrors(_, _)
FieldErrors(data, fields) ==
    IF fields = <<>> THEN <<>>
    ELSE (IF In(Head(fields), data) THEN <<>>
          ELSE <<Err("MissingField", Head(fields))>>)
         \o FieldErrors(data, Tail(fields))

DefaultSkills == JStr(<<".", "/">> \o s_skills)

\* validate_plugin, lines 41-52: the skills directory and its SKILL.md files
CheckSkills(p, data, errors) ==
    IF data.t # "object" THEN Raised("AttributeError")
    ELSE LET skills_path == Get(data, "skills", DefaultSkills) IN
         IF skills_path.t # "string" THEN Raised("AttributeError")
         ELSE LET skills_dir == PathUnder(lstrip(skills_path.s, {".", "/"})) IN
              IF ~is_dir(p, skills_dir)
              THEN Returned(Append(errors, Err("SkillsDirNotFound", "")))
              ELSE IF rglob(p, skills_dir) = {}
              THEN Returned(Append(errors, Err("NoSkillMd", "")))
              ELSE Returned(errors)

\* validate_plugin, lines 35-52: the checks on a descriptor that parsed
CheckDescriptor(p, errors) ==
    LET data == p.content IN
    IF ~SupportsIn(data) THEN Raised("TypeError")
    ELSE CheckSkills(p, data, errors \o FieldErrors(data, required_fields))

\* validate_plugin without the return of line 25: it reads on with an empty dict
validate_plugin_falls_through(p) ==
    IF p.holder # "dir"
    THEN Returned(<<Err("MissingHolder", "")>>)
    ELSE IF p.descriptor # "file"
    THEN CheckDescriptor([p EXCEPT !.content = TopObject(NoFields)],
                         <<Err("MissingDescriptor", "")>>)
    ELSE IF p.content.t = "invalid"
    THEN Returned(<<Err("InvalidJSON", "")>>)
    ELSE CheckDescriptor(p, <<>>)

validate_plugin(p) ==
    IF p.holder # "dir"
    THEN Returned(<<Err("MissingHolder", "")>>)
    ELSE IF p.descriptor # "file"
    THEN Returned(<<Err("MissingDescriptor", "")>>)
    ELSE IF p.content.t = "invalid"
    THEN Returned(<<Err("InvalidJSON", "")>>)
    ELSE CheckDescriptor(p, <<>>)

(***************************************************************************)
(* SpecPlugin: validate_plugin on one plugin directory                     *)
(***************************************************************************)
SkillsPaths ==
    { <<".", "/">> \o s_skills,
      s_skills \o <<"/">> \o s_x,
      s_dotskills \o <<"/">> \o s_x,
      s_up \o <<"/">> \o s_shared }

SkillsValues == {Absent, JNum} \cup {JStr(path) : path \in SkillsPaths}

Contents ==
    {Invalid, TopNumber, TopArray({}), TopArray({s_name, s_description, s_skills}),
     TopString(s_name)}
    \cup {TopObject([NoFields EXCEPT !.name = n, !.description = d, !.skills = k]) :
            n \in {Absent, JStr(<<"a">>)}, d \in {Absent, JStr(<<"d">>)},
            k \in SkillsValues}

DirUniverse ==
    { <<s_skills>>, <<s_skills, s_x>>, <<s_dotskills>>, <<s_dotskills, s_x>>,
      <<s_shared>>, <<s_up, s_shared>> }

ParentClosed(dirs) ==
    \A d \in dirs : Len(d) = 2 /\ d[1] # s_up => <<d[1]>> \in dirs

Trees ==
    {[dirs |-> ds, markers |-> ms] :
        <<ds, ms>> \in {x \in (SUBSET DirUniverse) \X (SUBSET DirUniverse) :
                          ParentClosed(x[1]) /\ x[2] \subseteq x[1]}}

PluginDir(holder, descriptor, content, tree) ==
    [holder |-> holder, descriptor |-> descriptor, content |-> content,
     dirs |-> tree.dirs, markers |-> tree.markers]

NotRun == [raised |-> "notrun", errors |-> <<>>]

ValidatePlugin ==
    /\ vresult = NotRun
    /\ vresult' = validate_plugin(plugin)
    /\ UNCHANGED <<plugin, registryVars, subsetterVars>>

IdlePlugin ==
    /\ plugin = PluginDir("absent", "absent", Invalid, [dirs |-> {}, markers |-> {}])
    /\ vresult = NotRun

IdleRegistry == registry = 0 /\ vrun = 0 /\ arun = 0

IdleSubsetter == source = 0 /\ dest = 0 /\ last = 0 /\ hist = 0

InitPlugin ==
    /\ \E tree \in Trees :
         \/ \E h \in {"absent", "file"} :
                plugin = PluginDir(h, "absent", Invalid, tree)
         \/ \E d \in {"absent", "dir"} :
                plugin = PluginDir("dir", d, Invalid, tree)
         \/ \E c \in Contents :
                plugin = PluginDir("dir", "file", c, tree)
    /\ vresult = NotRun
    /\ IdleRegistry
    /\ IdleSubsetter

NextPlugin == ValidatePlugin

SpecPlugin == InitPlugin /\ [][NextPlugin]_vars

(***************************************************************************)
(* Properties of validate_plugin (SpecPlugin)                              *)
(***************************************************************************)
Validated == vresult # NotRun

Parses(p) == p.holder = "dir" /\ p.descriptor = "file" /\ p.content.t # "invalid"

ParsesToObject(p) == Parses(p) /\ p.content.t = "object"

Count(errors, kind) == Len(SelectSeq(errors, LAMBDA e : e.kind = kind))

FirstFailure(p) ==
    IF p.holder # "dir" THEN "MissingHolder"
    ELSE IF p.descriptor # "file" THEN "MissingDescriptor"
    ELSE "InvalidJSON"

ExpectedFieldErrors(data) ==
    LET Missing(f) == data.f[f].t = "absent" IN
    [i \in 1..Len(SelectSeq(required_fields, Missing)) |->
        Err("MissingField", SelectSeq(required_fields, Missing)[i])]

\* C9: when the descriptor parses (to a JSON object), validate_plugin reports
\* one 'Missing required field' error for each of name, description and skills
\* that is absent, in that order and before any skills-directory error.
C9_FieldErrors ==
    Validated /\ ParsesToObject(plugin)
        => LET want == ExpectedFieldErrors(plugin.content) IN
           /\ vresult.raised = "no"
           /\ Count(vresult.errors, "MissingField") = Len(want)
           /\ Len(vresult.errors) >= Len(want)
           /\ SubSeq(vresult.errors, 1, Len(want)) = want

\* the directory the descriptor declares: plugin_dir / skills (or ./skills)
DeclaredSkillsDir(p) == PathUnder(Get(p.content, "skills", DefaultSkills).s)

\* C3: when the descriptor parses and declares a relative path string (or no
\* skills field), validate_plugin reports exactly one 'Skills directory not
\* found' error iff the declared path, resolved against the plugin directory,
\* is no directory; exactly one 'No SKILL.md files found' error iff it is a
\* directory holding no SKILL.md at any depth; and no skills error otherwise.
C3_SkillsDirectory ==
    /\ Validated
    /\ ParsesToObject(plugin)
    /\ Get(plugin.content, "skills", DefaultSkills).t = "string"
    => LET d == DeclaredSkillsDir(plugin) IN
       /\ vresult.raised = "no"
       /\ Count(vresult.errors, "SkillsDirNotFound")
             = (IF is_dir(plugin, d) THEN 0 ELSE 1)
       /\ Count(vresult.errors, "NoSkillMd")
             = (IF is_dir(plugin, d) /\ rglob(plugin, d) = {} THEN 1 ELSE 0)

(***************************************************************************)
(* The registry tree: registry.exists is plugins_dir.is_dir(); registry.cats *)
(* are the entries of plugins/ in iterdir order, each a file or a          *)
(* directory with its own entries in iterdir order.                        *)
(***************************************************************************)
MaxEntries == 3

CategoryNames == <<"general", "science">>

WithSkillMd == [dirs |-> {<<s_skills>>}, markers |-> {<<s_skills>>}]
EmptySkillsDir == [dirs |-> {<<s_skills>>}, markers |-> {}]

Described(n, d, k) ==
    TopObject([NoFields EXCEPT !.name = n, !.description = d, !.skills = k])

\* the kinds of entry of a category directory
EntryKinds ==
    { [kind |-> "file", p |-> PluginDir("absent", "absent", Invalid, WithSkillMd)],
      [kind |-> "dir", p |-> PluginDir("absent", "absent", Invalid, WithSkillMd)],
      [kind |-> "dir", p |-> PluginDir("dir", "absent", Invalid, WithSkillMd)],
      [kind |-> "dir", p |-> PluginDir("dir", "file", Invalid, WithSkillMd)],
      [kind |-> "dir", p |-> PluginDir("dir", "file", TopArray({}), WithSkillMd)],
      [kind |-> "dir", p |-> PluginDir("dir", "file",
            Described(JStr(<<"a">>), JStr(<<"d">>), DefaultSkills), WithSkillMd)],
      [kind |-> "dir", p |-> PluginDir("dir", "file",
            Described(JStr(<<"b">>), Absent, DefaultSkills), EmptySkillsDir)],
      [kind |-> "dir", p |-> PluginDir("dir", "file",
            Described(JStr(<<"c">>), JStr(<<"d">>), JNum), WithSkillMd)] }

\* a category entry: n = -1 is a file, n >= 0 a directory of n entries
Category(i, n, kinds) ==
    [name |-> CategoryNames[i],
     kind |-> IF n < 0 THEN "file" ELSE "dir",
     entries |-> [j \in 1..n |-> [name |-> j, kind |-> kinds[j].kind, p |-> kinds[j].p]]]

Size(n) == IF n < 0 THEN 0 ELSE n

(***************************************************************************)
(* validate_plugins.py: main                                               *)
(***************************************************************************)
PluginPath(cat, e) == <<"plugins", cat.name, e.name>>

VStart == [raised |-> "no", found |-> 0, all_errors |-> <<>>, reports |-> <<>>]

\* one pass of the inner loop, lines 71-85
VisitPlugin(cat, e, acc) ==
    IF e.kind # "dir" THEN acc
    ELSE IF e.p.holder # "dir" THEN acc
    ELSE LET r == validate_plugin(e.p) IN
         IF r.raised # "no"
         THEN [acc EXCEPT !.raised = r.raised, !.found = @ + 1]
         ELSE [acc EXCEPT
                 !.found = @ + 1,
                 !.all_errors = @ \o r.errors,
                 !.reports = Append(@, [path |-> PluginPath(cat, e),
                                        verdict |-> IF r.errors # <<>> THEN "FAIL" ELSE "OK",
                                        errors |-> r.errors])]

RECURSIVE VisitPlugins(_, _, _)
VisitPlugins(cat, entries, acc) ==
    IF entries = <<>> \/ acc.raised # "no" THEN acc
    ELSE VisitPlugins(cat, Tail(entries), VisitPlugin(cat, Head(entries), acc))

RECURSIVE VisitCategories(_, _)
VisitCategories(cats, acc) ==
    IF cats = <<>> \/ acc.raised # "no" THEN acc
    ELSE VisitCategories(Tail(cats),
            IF Head(cats).kind # "dir" THEN acc
            ELSE VisitPlugins(Head(cats), Head(cats).entries, acc))

\* the process outcome: an uncaught exception ends the interpreter with
\* status 1 before the summary lines; sys.exit gives the status otherwise
validator_main(reg) ==
    IF ~reg.exists
    THEN [status |-> "exit", code |-> 0, raised |-> "no", found |-> 0,
          all_errors |-> <<>>, reports |-> <<>>, summary |-> FALSE]
    ELSE LET acc == VisitCategories(reg.cats, VStart) IN
         [status |-> "exit",
          code |-> IF acc.raised # "no" THEN 1
                   ELSE IF acc.all_errors # <<>> THEN 1 ELSE 0,
          raised |-> acc.raised, found |-> acc.found,
          all_errors |-> acc.all_errors, reports |-> acc.reports,
          summary |-> acc.raised = "no"]

(***************************************************************************)
(* generate_marketplace.py: collect_plugins and main                       *)
(***************************************************************************)
s_version == <<"1", ".", "0", ".", "0">>

CStart == [raised |-> "no", plugins |-> <<>>, warnings |-> <<>>]

\* one pass of the inner loop, lines 24-45
CollectPlugin(cat, e, acc) ==
    IF e.kind # "dir" THEN acc
    ELSE IF ~(e.p.holder = "dir" /\ e.p.descriptor = "file") THEN acc
    ELSE LET data == e.p.content IN
         IF data.t = "invalid"
         THEN [acc EXCEPT !.warnings = Append(@, PluginPath(cat, e))]
         ELSE IF data.t # "object"
         THEN [acc EXCEPT !.raised = "AttributeError"]
         ELSE [acc EXCEPT !.plugins = Append(@,
                  [name |-> Get(data, "name", JNull),
                   version |-> Get(data, "version", JStr(s_version)),
                   description |-> Get(data, "description", JStr(<<>>)),
                   author |-> Get(data, "author", JObj),
                   category |-> cat.name,
                   path |-> PluginPath(cat, e)])]

RECURSIVE CollectPlugins(_, _, _)
CollectPlugins(cat, entries, acc) ==
    IF entries = <<>> \/ acc.raised # "no" THEN acc
    ELSE CollectPlugins(cat, Tail(entries), CollectPlugin(cat, Head(entries), acc))

RECURSIVE CollectCategories(_, _)
CollectCategories(cats, acc) ==
    IF cats = <<>> \/ acc.raised # "no" THEN acc
    ELSE CollectCategories(Tail(cats),
            IF Head(cats).kind # "dir" THEN acc
            ELSE CollectPlugins(Head(cats), Head(cats).entries, acc))

collect_plugins(reg) ==
    IF ~reg.exists THEN CStart ELSE CollectCategories(reg.cats, CStart)

\* marketplace.json is written only when collect_plugins returns
aggregator_main(reg) ==
    LET c == collect_plugins(reg) IN
    [status |-> "exit",
     code |-> IF c.raised # "no" THEN 1 ELSE 0,
     raised |-> c.raised,
     written |-> c.raised = "no",
     plugins |-> IF c.raised = "no" THEN c.plugins ELSE <<>>,
     warnings |-> c.warnings]

(***************************************************************************)
(* SpecRegistry: the validator and the aggregator, each run once on the    *)
(* same unchanged tree                                                     *)
(***************************************************************************)
VNotRun == [status |-> "notrun", code |-> 0, raised |-> "no", found |-> 0,
            all_errors |-> <<>>, reports |-> <<>>, summary |-> FALSE]

ANotRun == [status |-> "notrun", code |-> 0, raised |-> "no", written |-> FALSE,
            plugins |-> <<>>, warnings |-> <<>>]

InitRegistry ==
    /\ \/ registry = [exists |-> FALSE, cats |-> <<>>]
       \/ registry = [exists |-> TRUE, cats |-> <<>>]
       \/ \E n1 \in -1..MaxEntries : \E k1 \in [1..n1 -> EntryKinds] :
            \/ registry = [exists |-> TRUE, cats |-> <<Category(1, n1, k1)>>]
            \/ \E n2 \in -1..(MaxEntries - Size(n1)) : \E k2 \in [1..n2 -> EntryKinds] :
                  registry = [exists |-> TRUE,
                              cats |-> <<Category(1, n1, k1), Category(2, n2, k2)>>]
    /\ vrun = VNotRun
    /\ arun = ANotRun
    /\ IdlePlugin
    /\ IdleSubsetter

RunValidator ==
    /\ vrun.status = "notrun"
    /\ vrun' = validator_main(registry)
    /\ UNCHANGED <<registry, arun, pluginVars, subsetterVars>>

RunAggregator ==
    /\ arun.status = "notrun"
    /\ arun' = aggregator_main(registry)
    /\ UNCHANGED <<registry, vrun, pluginVars, subsetterVars>>

NextRegistry == RunValidator \/ RunAggregator

SpecRegistry == InitRegistry /\ [][NextRegistry]_vars

(***************************************************************************)
(* Properties of the validator and the aggregator (SpecRegistry)           *)
(***************************************************************************)
\* the <category>/<plugin> directories of the tree
PluginDirs(reg) ==
    UNION {{[cat |-> reg.cats[i], e |-> reg.cats[i].entries[j]] :
               j \in {k \in 1..Len(reg.cats[i].entries) :
                        reg.cats[i].entries[k].kind = "dir"}} :
           i \in {k \in 1..Len(reg.cats) : reg.cats[k].kind = "dir"}}

PathOf(x) == PluginPath(x.cat, x.e)

HasHolder(x) == x.e.p.holder = "dir"

HasDescriptorFile(x) == x.e.p.holder = "dir" /\ x.e.p.descriptor = "file"

HasValidDescriptor(x) == HasDescriptorFile(x) /\ x.e.p.content.t = "object"

ReportsOf(path) == SelectSeq(vrun.reports, LAMBDA r : r.path = path)

RecordsOf(path) == SelectSeq(arun.plugins, LAMBDA r : r.path = path)

Warned(path) == \E i \in 1..Len(arun.warnings) : arun.warnings[i] = path

\* C1: the validator exits 1 iff validate_plugin returned at least one error
\* for some <category>/<plugin> directory holding .claude-plugin, and 0
\* otherwise; with no registry root it exits 0 and validates nothing.
C1_ExitCode ==
    vrun.status = "exit"
        => IF ~registry.exists
           THEN vrun.code = 0 /\ vrun.found = 0 /\ vrun.reports = <<>>
           ELSE /\ vrun.code \in {0, 1}
                /\ vrun.code = 1
                     <=> \E x \in PluginDirs(registry) :
                           /\ HasHolder(x)
                           /\ validate_plugin(x.e.p).raised = "no"
                           /\ validate_plugin(x.e.p).errors # <<>>

\* a descriptor that is not what the schema asks for
Malformed(p) ==
    \/ p.content.t # "object"
    \/ \E f \in {"name", "description", "skills"} : p.content.f[f].t = "absent"
    \/ p.content.f.skills.t # "string"

\* C2: a malformed descriptor never ends the run of either tool: the validator
\* reports every plugin directory holding .claude-plugin (a malformed one as
\* FAIL with its errors) and reaches its summary; the aggregator lists or
\* warns about every plugin with a descriptor file, writes the document and
\* exits 0.
C2_NoAbort ==
    /\ vrun.status = "exit" /\ registry.exists
         => /\ vrun.raised = "no"
            /\ vrun.summary
            /\ \A x \in PluginDirs(registry) :
                 HasHolder(x)
                   => /\ Len(ReportsOf(PathOf(x))) = 1
                      /\ HasDescriptorFile(x) /\ Malformed(x.e.p)
                           => /\ ReportsOf(PathOf(x))[1].verdict = "FAIL"
                              /\ ReportsOf(PathOf(x))[1].errors # <<>>
    /\ arun.status = "exit"
         => /\ arun.raised = "no"
            /\ arun.code = 0
            /\ arun.written
            /\ \A x \in PluginDirs(registry) :
                 HasDescriptorFile(x)
                   => IF x.e.p.content.t = "object"
                      THEN Len(RecordsOf(PathOf(x))) = 1
                      ELSE Warned(PathOf(x))

\* C4: the generated plugin list holds exactly one record for each
\* <category>/<plugin> directory with a valid descriptor file, with the
\* descriptor's name, the category directory's name and the path relative to
\* the registry root's parent, and no record for anything else.
C4_Completeness ==
    arun.status = "exit"
        => /\ \A x \in PluginDirs(registry) :
                IF HasValidDescriptor(x)
                THEN /\ Len(RecordsOf(PathOf(x))) = 1
                     /\ RecordsOf(PathOf(x))[1].name = Get(x.e.p.content, "name", JNull)
                     /\ RecordsOf(PathOf(x))[1].category = x.cat.name
                ELSE Len(RecordsOf(PathOf(x))) = 0
           /\ Len(arun.plugins)
                = Cardinality({x \in PluginDirs(registry) : HasValidDescriptor(x)})

\* C10: on an unchanged tree, every plugin the validator reports OK is listed
\* exactly once by the aggregator with the descriptor's name and description,
\* every listed plugin is one the validator counted as found, and the
\* aggregator's count never exceeds the validator's.
C10_CrossTool ==
    vrun.status = "exit" /\ arun.status = "exit"
        => /\ \A x \in PluginDirs(registry) :
                (\E i \in 1..Len(vrun.reports) :
                    vrun.reports[i].path = PathOf(x) /\ vrun.reports[i].verdict = "OK")
                  => /\ Len(RecordsOf(PathOf(x))) = 1
                     /\ RecordsOf(PathOf(x))[1].name = x.e.p.content.f.name
                     /\ RecordsOf(PathOf(x))[1].description = x.e.p.content.f.description
           /\ \A i \in 1..Len(arun.plugins) :
                \E x \in PluginDirs(registry) :
                    PathOf(x) = arun.plugins[i].path /\ HasHolder(x)
           /\ Len(arun.plugins) <= vrun.found

(***************************************************************************)
(* setup_test_data.py                                                      *)
(***************************************************************************)
CYCLES == <<"cyc001", "cyc002", "cyc003">>

\* TILE_MAPPING.items(), in the dict's insertion order
TILE_MAPPING ==
    << [old |-> 58, new |-> 1], [old |-> 59, new |-> 2],
       [old |-> 73, new |-> 3], [old |-> 72, new |-> 4] >>

MetaNames == <<"CHANNELNAMES.txt", "channelnames.txt", "channel_names.txt">>

Digit(d) == <<"0", "1", "2", "3", "4", "5", "6", "7", "8", "9">>[d + 1]

RECURSIVE Decimal(_)
Decimal(n) == IF n < 10 THEN <<Digit(n)>> ELSE Append(Decimal(n \div 10), Digit(n % 10))

RECURSIVE ZeroPad(_, _)
ZeroPad(s, width) == IF Len(s) >= width THEN s ELSE ZeroPad(<<"0">> \o s, width)

\* f"{n:05d}"
Format05d(n) == ZeroPad(Decimal(n), 5)

\* the tile numbers of the mapping, and 60 for a tile outside it
TileIds ==
    {TILE_MAPPING[i].old : i \in DOMAIN TILE_MAPPING}
    \cup {TILE_MAPPING[i].new : i \in DOMAIN TILE_MAPPING} \cup {60}

SegmentTable == [tile \in TileIds |-> <<"1", "_">> \o Format05d(tile) \o <<"_">>]

\* f"1_{tile:05d}_"
TileSegment(tile) == SegmentTable[tile]

\* Python: s.replace(old, new), every non-overlapping occurrence from the left
RECURSIVE replace(_, _, _)
replace(s, old, new) ==
    IF Len(s) < Len(old) THEN s
    ELSE IF StartsWith(s, old)
    THEN new \o replace(SubSeq(s, Len(old) + 1, Len(s)), old, new)
    ELSE <<Head(s)>> \o replace(Tail(s), old, new)

rename_tile(filename, old_tile, new_tile) ==
    replace(filename, TileSegment(old_tile), TileSegment(new_tile))

s_tif == <<".", "t", "i", "f">>

\* whether a name matches the pattern f"1_{old_tile:05d}_*.tif"
GlobMatch(name, old_tile) ==
    /\ StartsWith(name, TileSegment(old_tile))
    /\ EndsWith(name, s_tif)
    /\ Len(name) >= Len(TileSegment(old_tile)) + Len(s_tif)

\* source_dir.glob(pattern): the matching entries, in the directory's order
glob(listing, old_tile) == SelectSeq(listing, LAMBDA f : GlobMatch(f.name, old_tile))

Exists(files, name) == \E f \in files : f.name = name

\* lines 61-67 with the test of line 65 dropped: copy2 overwrites and counts
CopyFile_overwrites(src_file, old_tile, new_tile, acc) ==
    LET new_name == rename_tile(src_file.name, old_tile, new_tile) IN
    [copied |-> acc.copied + 1,
     files |-> {f \in acc.files : f.name # new_name}
               \cup {[name |-> new_name, data |-> src_file.data]}]

\* lines 61-67 with line 67 outside the if: every matched file is counted
CopyFile_counts_all(src_file, old_tile, new_tile, acc) ==
    LET new_name == rename_tile(src_file.name, old_tile, new_tile) IN
    IF ~Exists(acc.files, new_name)
    THEN [copied |-> acc.copied + 1,
          files |-> acc.files \cup {[name |-> new_name, data |-> src_file.data]}]
    ELSE [acc EXCEPT !.copied = @ + 1]

\* the body of the inner loop, lines 61-67
CopyFile(src_file, old_tile, new_tile, acc) ==
    LET new_name == rename_tile(src_file.name, old_tile, new_tile) IN
    IF ~Exists(acc.files, new_name)
    THEN [copied |-> acc.copied + 1,
          files |-> acc.files \cup {[name |-> new_name, data |-> src_file.data]}]
    ELSE acc

RECURSIVE CopyFiles(_, _, _, _)
CopyFiles(tile_files, old_tile, new_tile, acc) ==
    IF tile_files = <<>> THEN acc
    ELSE CopyFiles(Tail(tile_files), old_tile, new_tile,
                   CopyFile(Head(tile_files), old_tile, new_tile, acc))

RECURSIVE CopyTiles(_, _, _)
CopyTiles(mapping, listing, acc) ==
    IF mapping = <<>> THEN acc
    ELSE CopyTiles(Tail(mapping), listing,
                   CopyFiles(glob(listing, Head(mapping).old),
                             Head(mapping).old, Head(mapping).new, acc))

\* copy_cycle: the count it returns and the destination cycle directory after it
copy_cycle(source_dir, dest_dir) ==
    IF ~source_dir.exists THEN [copied |-> 0, dir |-> dest_dir]
    ELSE LET r == CopyTiles(TILE_MAPPING, source_dir.files,
                            [copied |-> 0, files |-> dest_dir.files]) IN
         [copied |-> r.copied, dir |-> [exists |-> TRUE, files |-> r.files]]

\* the first candidate name that exists in the source's meta/, 0 if none
FirstMeta(source_meta) ==
    LET found == {i \in DOMAIN MetaNames : source_meta[MetaNames[i]] # "none"} IN
    IF found = {} THEN 0 ELSE CHOOSE i \in found : \A j \in found : i <= j

\* copy_metadata: the destination's meta/ after it
copy_metadata(source_meta, dest_meta) ==
    IF FirstMeta(source_meta) = 0 THEN dest_meta
    ELSE [dest_meta EXCEPT ![MetaNames[FirstMeta(source_meta)]] =
                               source_meta[MetaNames[FirstMeta(source_meta)]]]

\* main: the destination tree after the run and the counts it prints
subsetter_main(src, dst) ==
    LET done == [i \in DOMAIN CYCLES |-> copy_cycle(src.cycles[i], dst.cycles[i])]
        Sum[i \in 0..Len(CYCLES)] == IF i = 0 THEN 0 ELSE Sum[i - 1] + done[i].copied
    IN [dest |-> [project |-> TRUE,
                  cycles |-> [i \in DOMAIN CYCLES |-> done[i].dir],
                  meta_dir |-> TRUE,
                  meta |-> copy_metadata(src.meta, dst.meta),
                  readme |-> "generated"],
        report |-> [copied |-> [i \in DOMAIN CYCLES |-> done[i].copied],
                    total |-> Sum[Len(CYCLES)]]]

(***************************************************************************)
(* SpecSubsetter: runs of setup_test_data.py, with edits of the source     *)
(* project between them                                                    *)
(***************************************************************************)
MaxSrcFiles == 2

DataValues == {"v1", "v2"}

s_plane == <<"Z", "1">>
s_txt == <<".", "t", "x", "t">>

\* the file names a source cycle directory may hold
SourceNames(i) ==
    IF i = 1
    THEN { TileSegment(58) \o s_plane \o s_tif,
           TileSegment(58) \o s_plane \o s_txt,
           TileSegment(58) \o TileSegment(58) \o s_tif,
           TileSegment(58) \o TileSegment(1) \o s_tif }
    ELSE IF i = 2
    THEN { TileSegment(73) \o s_plane \o s_tif,
           TileSegment(60) \o s_plane \o s_tif }
    ELSE { TileSegment(59) \o s_plane \o s_tif,
           TileSegment(72) \o s_plane \o s_tif }

Listings(i, n) ==
    {[k \in 1..n |-> [name |-> names[k], data |-> "v1"]] :
        names \in {s \in [1..n -> SourceNames(i)] :
                     \A a, b \in 1..n : a # b => s[a] # s[b]}}

CycleDirs(i, n) ==
    {[exists |-> e, files |-> l] :
        e \in (IF n > 0 THEN {TRUE} ELSE BOOLEAN), l \in Listings(i, n)}

NoMeta == [m \in {MetaNames[i] : i \in DOMAIN MetaNames} |-> "none"]

MetaInputs ==
    { NoMeta,
      [NoMeta EXCEPT ![MetaNames[1]] = "v1"],
      [NoMeta EXCEPT ![MetaNames[2]] = "v1", ![MetaNames[3]] = "v1"] }

NoDest ==
    [project |-> FALSE,
     cycles |-> [i \in DOMAIN CYCLES |-> [exists |-> FALSE, files |-> {}]],
     meta_dir |-> FALSE, meta |-> NoMeta, readme |-> "none"]

\* a destination left by an earlier use: one tile of cyc001 under its new name
StaleDest ==
    [NoDest EXCEPT
        !.project = TRUE,
        !.cycles[1] = [exists |-> TRUE,
                       files |-> {[name |-> TileSegment(1) \o s_plane \o s_tif,
                                   data |-> "v0"]}]]

NoReport == [copied |-> [i \in DOMAIN CYCLES |-> 0], total |-> 0]

InitSubsetter ==
    /\ \E n1 \in 0..MaxSrcFiles : \E n2 \in 0..(MaxSrcFiles - n1) :
         \E n3 \in 0..(MaxSrcFiles - n1 - n2) :
            \E c1 \in CycleDirs(1, n1), c2 \in CycleDirs(2, n2), c3 \in CycleDirs(3, n3) :
               \E m \in MetaInputs :
                  source = [cycles |-> <<c1, c2, c3>>, meta |-> m]
    /\ dest \in {NoDest, StaleDest}
    /\ last = NoReport
    /\ hist = [runs |-> 0, dirty |-> FALSE, repeat |-> FALSE,
               before |-> dest, ranOn |-> source]
    /\ IdlePlugin
    /\ IdleRegistry

SourceFileCount ==
    LET Sum[i \in 0..Len(CYCLES)] ==
            IF i = 0 THEN 0 ELSE Sum[i - 1] + Len(source.cycles[i].files)
    IN Sum[Len(CYCLES)]

\* the source is edited once, between the first run and the second
MayEdit == hist.runs = 1 /\ ~hist.dirty

Edited == [hist EXCEPT !.dirty = TRUE]

\* an acquisition file of the source is rewritten in place
RewriteTile ==
    /\ MayEdit
    /\ \E i \in DOMAIN CYCLES : \E k \in DOMAIN source.cycles[i].files :
         \E d \in DataValues \ {source.cycles[i].files[k].data} :
            source' = [source EXCEPT !.cycles[i].files[k].data = d]
    /\ hist' = Edited
    /\ UNCHANGED <<dest, last, pluginVars, registryVars>>

\* a file appears in an existing source cycle directory
AddTile ==
    /\ MayEdit
    /\ SourceFileCount < MaxSrcFiles
    /\ \E i \in DOMAIN CYCLES :
         /\ source.cycles[i].exists
         /\ \E n \in SourceNames(i) :
              /\ \A k \in DOMAIN source.cycles[i].files :
                    source.cycles[i].files[k].name # n
              /\ source' = [source EXCEPT
                              !.cycles[i].files = Append(@, [name |-> n, data |-> "v1"])]
    /\ hist' = Edited
    /\ UNCHANGED <<dest, last, pluginVars, registryVars>>

\* a channel-names file of the source's meta/ is written
WriteMeta ==
    /\ MayEdit
    /\ \E i \in DOMAIN MetaNames : \E d \in DataValues \ {source.meta[MetaNames[i]]} :
          source' = [source EXCEPT !.meta[MetaNames[i]] = d]
    /\ hist' = Edited
    /\ UNCHANGED <<dest, last, pluginVars, registryVars>>

RunSubsetter ==
    /\ \E r \in {subsetter_main(source, dest)} : dest' = r.dest /\ last' = r.report
    /\ hist' = [hist EXCEPT
                  !.runs = IF @ = 0 THEN 1 ELSE 2,
                  !.dirty = FALSE,
                  !.repeat = (hist.runs > 0 /\ ~hist.dirty),
                  !.before = dest,
                  !.ranOn = source]
    /\ UNCHANGED <<source, pluginVars, registryVars>>

NextSubsetter == RunSubsetter \/ RewriteTile \/ AddTile \/ WriteMeta

SpecSubsetter == InitSubsetter /\ [][NextSubsetter]_vars

(***************************************************************************)
(* Properties of the subsetter (SpecSubsetter). hist.before is the         *)
(* destination as the latest run found it, hist.ranOn the source it read.  *)
(***************************************************************************)
TileNames(d, i) == {f.name : f \in d.cycles[i].files}

DestNames(d) ==
    [tiles |-> [i \in DOMAIN CYCLES |-> TileNames(d, i)],
     meta |-> {m \in DOMAIN d.meta : d.meta[m] # "none"},
     readme |-> d.readme # "none"]

\* C5: a second run in succession against the same unchanged source and the
\* same destination copies zero files (every cycle's count and the total are
\* 0) and leaves the set of destination file names as the first run left it.
C5_Idempotent ==
    hist.repeat
        => /\ last.total = 0
           /\ \A i \in DOMAIN CYCLES : last.copied[i] = 0
           /\ DestNames(dest) = DestNames(hist.before)

\* C5 witness: a repeated run over a destination that holds copied tiles of a
\* source with at least two files.
C5_Witness ==
    /\ hist.repeat
    /\ \E i \in DOMAIN CYCLES : Len(hist.ranOn.cycles[i].files) >= 2
    /\ \E i \in DOMAIN CYCLES : \E f \in dest.cycles[i].files : f.data = "v1"

\* the source names of tile old: 1_<old as 5 digits>_<rest>.tif
SourceNamesOf(listing, old) ==
    {listing[k].name : k \in {j \in DOMAIN listing :
        /\ StartsWith(listing[j].name, TileSegment(old))
        /\ EndsWith(listing[j].name, s_tif)
        /\ Len(listing[j].name) >= Len(TileSegment(old)) + Len(s_tif)}}

\* the source name with its leading tile segment exchanged, the rest kept
Remapped(name, old, new) ==
    TileSegment(new) \o SubSeq(name, Len(TileSegment(old)) + 1, Len(name))

\* C6: after a run into destination cycle directories that held no tile
\* files, for every existing cycle and every tile of the mapping the
\* destination files of the tile are exactly the source files of the tile
\* with the leading tile segment exchanged for the mapped one and the rest of
\* the name kept, distinct source files giving distinct destination files.
C6_Remap ==
    hist.runs >= 1
        => \A i \in DOMAIN CYCLES :
             hist.ranOn.cycles[i].exists /\ hist.before.cycles[i].files = {}
               => \A m \in DOMAIN TILE_MAPPING :
                    LET old == TILE_MAPPING[m].old
                        new == TILE_MAPPING[m].new
                        srcs == SourceNamesOf(hist.ranOn.cycles[i].files, old)
                        got == {n \in TileNames(dest, i) : StartsWith(n, TileSegment(new))}
                    IN /\ got = {Remapped(n, old, new) : n \in srcs}
                       /\ Cardinality(got) = Cardinality(srcs)

TilesKept ==
    \A i \in DOMAIN CYCLES :
        /\ hist.before.cycles[i].exists => dest.cycles[i].exists
        /\ hist.before.cycles[i].files \subseteq dest.cycles[i].files
        /\ last.copied[i] = Cardinality(dest.cycles[i].files)
                                - Cardinality(hist.before.cycles[i].files)

\* C7: a run never overwrites, modifies or removes a file the destination
\* already holds, README.md excepted: an existing tile file keeps its content
\* and is not counted as copied, an existing metadata file keeps its content.
C7_NoOverwrite ==
    hist.runs >= 1
        => /\ TilesKept
           /\ \A m \in DOMAIN dest.meta :
                hist.before.meta[m] # "none" => dest.meta[m] = hist.before.meta[m]

\* the metadata file name the latest run copied, "" if none
CopiedMeta ==
    IF FirstMeta(hist.ranOn.meta) = 0 THEN ""
    ELSE MetaNames[FirstMeta(hist.ranOn.meta)]

\* C7 amended: a run never overwrites, modifies or removes a file the
\* destination already holds, except README.md and the metadata file named as
\* the first candidate found in the source's meta/, which is overwritten with
\* the source's content on every run; an existing tile file keeps its content
\* and is not counted as copied, and every other existing metadata file keeps
\* its content.
C7_NoOverwriteButMeta ==
    hist.runs >= 1
        => /\ TilesKept
           /\ \A m \in DOMAIN dest.meta :
                IF m = CopiedMeta
                THEN dest.meta[m] = hist.ranOn.meta[m]
                ELSE dest.meta[m] = hist.before.meta[m]
           /\ dest.readme = "generated"

\* C7 witness: the run found a destination tile whose source file has other
\* content, and a destination metadata file whose source has other content.
C7_Witness ==
    /\ hist.runs >= 1
    /\ \E i \in DOMAIN CYCLES : \E f \in hist.before.cycles[i].files :
         \E k \in DOMAIN hist.ranOn.cycles[i].files : \E m \in DOMAIN TILE_MAPPING :
            LET g == hist.ranOn.cycles[i].files[k] IN
            /\ GlobMatch(g.name, TILE_MAPPING[m].old)
            /\ rename_tile(g.name, TILE_MAPPING[m].old, TILE_MAPPING[m].new) = f.name
            /\ g.data # f.data
            /\ f \in dest.cycles[i].files
    /\ \E m \in DOMAIN dest.meta :
         /\ hist.before.meta[m] # "none"
         /\ hist.before.meta[m] # dest.meta[m]

====
